---------------------------- MODULE Spec2Model ----------------------------
(***************************************************************************)
(* Model of the Twitter notification plugin, apprise/plugins/twitter.py.   *)
(*                                                                         *)
(* The plugin is single threaded.  One object (NotifyTwitter) owns the     *)
(* rate-limit state, the two identity caches and the configuration; each   *)
(* call of _fetch is one blocking HTTP interaction and is one step of the  *)
(* model.  The module holds several specifications over the same           *)
(* variables, one per component:                                           *)
(*                                                                         *)
(*   SpecFetch   _fetch and the rate limiter, any sequence of requests     *)
(*   SpecPlan    the payload building of _send_tweet (a pure function)     *)
(*   SpecChunk   one _user_lookup of up to MaxHandles handles              *)
(*   SpecLookup  _user_lookup and _whoami called again and again           *)
(*   Spec        send(): uploads, resolution, the send loop                *)
(*                                                                         *)
(* Time is counted in ticks of half a second.  Python's None is the empty  *)
(* tuple and a value v that may be None is the one-element tuple <<v>>.    *)
(***************************************************************************)
EXTENDS Integers, Sequences, FiniteSets, TLC

VARIABLES
    \* ---- the object (self) ----
    mode,                 \* self.mode: "dm" or "tweet"
    batch,                \* self.batch
    cache,                \* self.cache
    targets,              \* self.targets: None, or Some(list of handles)
    now,                  \* the wall clock read by datetime.now(), in ticks
    ratelimit_remaining,  \* self.ratelimit_remaining
    ratelimit_reset,      \* self.ratelimit_reset, in ticks
    whoami_cache,         \* self._whoami_cache: None or Some(mapping)
    user_cache,           \* self._user_cache: mapping handle -> id
    \* ---- the call in progress ----
    pc,                   \* position of the control flow
    call,                 \* the arguments and local variables of the call
    openFiles,            \* number of attachment file handles currently open
    lastFetch,            \* what the last _fetch did (observation)
    reqlog                \* the requests issued by the call, in order

objVars   == <<mode, batch, cache, targets>>
rateVars  == <<now, ratelimit_remaining, ratelimit_reset>>
cacheVars == <<whoami_cache, user_cache>>
callVars  == <<pc, call, reqlog>>
vars == <<mode, batch, cache, targets, now, ratelimit_remaining,
          ratelimit_reset, whoami_cache, user_cache, pc, call, openFiles,
          lastFetch, reqlog>>

----------------------------------------------------------------------------
(* Python values *)

None == <<>>
Some(v) == <<v>>
Val(o) == o[1]

\* A mapping (dict) is a function with a finite domain; {} is the empty one.
EmptyMap == <<>>
Keys(m) == DOMAIN m
\* dict.update(other)
Update(m, other) ==
    [k \in Keys(m) \cup Keys(other) |-> IF k \in Keys(other) THEN other[k] ELSE m[k]]
\* {k: v for k, v in m.items() if k in ks}
Restrict(m, ks) == [k \in Keys(m) \cap ks |-> m[k]]

Range(s) == {s[i] : i \in DOMAIN s}

----------------------------------------------------------------------------
(* Bounds of the model *)

MaxTime == 5        \* the clock ticks on its own up to this tick
MaxResetSec == 2    \* largest epoch second a reset header names

----------------------------------------------------------------------------
(* Program constants *)

Grace == 1                  \* the 0.5 s grace period, in ticks
HttpOk == 200               \* requests.codes.ok
TweetBatch == 4             \* __tweet_non_gif_images_batch
LookupBatch == 100          \* handles per users/lookup request
DefaultRemaining == 1       \* class default of ratelimit_remaining

\* int seconds of an epoch -> ticks
Seconds(s) == 2 * s

----------------------------------------------------------------------------
(* JSON bodies, as far as the plugin looks into them *)

\* shape: what isinstance() sees; media_id: response.get("media_id"), 0 when
\* missing or falsy; users: the screen_name -> id pairs the body carries
\* (the entries of a lookup list, or the one pair of verify_credentials).
Json(shape, media_id, users) ==
    [shape |-> shape, media_id |-> media_id, users |-> users]
EmptyDict == Json("dict", 0, EmptyMap)

\* A response header: absent, not an integer, or an integer.
Absent == [kind |-> "absent", val |-> 0]
Garbled == [kind |-> "garbled", val |-> 0]
IntHeader(n) == [kind |-> "int", val |-> n]

\* What the world answers to one request.
OpenError == [case |-> "open_oserror"]
TransportError(e) == [case |-> e]
Response(status, parsable, json, hrem, hreset) ==
    [case |-> "response", status |-> status, parsable |-> parsable,
     json |-> json, hrem |-> hrem, hreset |-> hreset]

----------------------------------------------------------------------------
(* _fetch *)

\* The wait computed before the request.
ThrottleWaitInverted(remaining, t, reset) ==
    IF remaining = 0
    THEN IF t > reset THEN Some((reset - t) + Grace) ELSE None
    ELSE None

ThrottleWaitLoose(remaining, t, reset) ==
    IF remaining = 0
    THEN IF t <= reset THEN Some((reset - t) + Grace) ELSE None
    ELSE None

ThrottleWait(remaining, t, reset) ==
    IF remaining = 0
    THEN IF t < reset THEN Some((reset - t) + Grace) ELSE None
    ELSE None

\* self.throttle(wait=wait): sleeps for wait when one is given
\* (request_rate_per_sec is 0, so nothing else delays the call).
Throttle(t, wait) == IF wait = None THEN t ELSE t + Val(wait)

\* loads(r.content), {} when it cannot be parsed
Loads(o) == IF o.parsable THEN o.json ELSE EmptyDict

\* r.status_code != requests.codes.ok is the failure test
StatusOkAny2xx(status) == status \div 100 = 2

StatusOk(status) == status = HttpOk

\* The rate-limit state after a response: <<remaining, reset>>.
RateAfter(remaining, reset, o) ==
    IF ~StatusOk(o.status)
    THEN <<remaining, reset>>
    ELSE IF o.hrem.kind # "int"
    THEN <<remaining, reset>>
    ELSE IF o.hreset.kind # "int"
    THEN <<o.hrem.val, reset>>
    ELSE <<o.hrem.val, Seconds(o.hreset.val)>>

\* The handles the finally clause closes: the one in files, if files is set.
ClosedNever(files) == 0

ClosedInFinally(files) == IF files THEN 1 ELSE 0

\* One call of _fetch with an attachment payload (isFile) or a dict payload,
\* in rate-limit state <<remaining, reset>> at time t, answered by o.
\*   raised    an exception left _fetch
\*   ok, content   the returned pair (when nothing was raised)
\*   transport the transport function was called, at time `at`
\*   opened, closed   file handles opened and closed by the call
FetchResult(isFile, remaining, reset, t, o) ==
    LET wait == ThrottleWait(remaining, t, reset)
        at == Throttle(t, wait)
        base == [raised |-> FALSE, ok |-> FALSE, content |-> EmptyDict,
                 transport |-> TRUE, wait |-> wait, at |-> at,
                 remaining |-> remaining, reset |-> reset,
                 opened |-> IF isFile THEN 1 ELSE 0,
                 closed |-> ClosedInFinally(isFile)]
    IN  IF isFile /\ o.case = "open_oserror"
        THEN \* open() is called before the try block
             [base EXCEPT !.raised = TRUE, !.transport = FALSE, !.at = t,
                          !.wait = None, !.opened = 0, !.closed = 0]
        ELSE IF o.case \in {"RequestException", "OSError"}
        THEN base
        ELSE IF ~StatusOk(o.status)
        THEN [base EXCEPT !.content = Loads(o)]
        ELSE [base EXCEPT !.ok = TRUE, !.content = Loads(o),
                          !.remaining = RateAfter(remaining, reset, o)[1],
                          !.reset = RateAfter(remaining, reset, o)[2]]

----------------------------------------------------------------------------
(* SpecFetch: any sequence of requests of one object *)

Statuses == {HttpOk, 201, 429}
RemainingHeaders == {Absent, Garbled, IntHeader(0), IntHeader(1)}
ResetHeaders == {Absent, Garbled} \cup {IntHeader(s) : s \in 1..MaxResetSec}
SomeBody == Json("dict", 7, EmptyMap)

FetchOutcomes ==
    {OpenError, TransportError("RequestException"), TransportError("OSError")}
    \cup {Response(s, p, SomeBody, hr, hs) :
            s \in Statuses, p \in BOOLEAN,
            hr \in RemainingHeaders, hs \in ResetHeaders}

NoFetch == [called |-> FALSE]

Observe(isFile, t, remaining, reset, o, r) ==
    [called |-> TRUE, isFile |-> isFile, case |-> o.case,
     pre_now |-> t, pre_remaining |-> remaining, pre_reset |-> reset,
     raised |-> r.raised, ok |-> r.ok, content |-> r.content,
     transport |-> r.transport, wait |-> r.wait, at |-> r.at]

InitObject ==
    /\ mode = "dm"
    /\ batch = TRUE
    /\ cache = TRUE
    /\ targets = Some(<<>>)
    /\ whoami_cache = None
    /\ user_cache = EmptyMap

InitRate ==
    /\ ratelimit_remaining = DefaultRemaining
    /\ ratelimit_reset = 0

InitFetch ==
    /\ InitObject
    /\ InitRate
    /\ now \in 0..1
    /\ pc = "idle"
    /\ call = <<>>
    /\ openFiles = 0
    /\ lastFetch = NoFetch
    /\ reqlog = <<>>

\* Time passes between two requests.
Tick ==
    /\ now < MaxTime
    /\ now' = now + 1
    /\ UNCHANGED <<objVars, ratelimit_remaining, ratelimit_reset, cacheVars,
                   callVars, openFiles, lastFetch>>

\* One request, of any kind, from the idle object.
Fetch ==
    \E isFile \in BOOLEAN, o \in FetchOutcomes :
        LET r == FetchResult(isFile, ratelimit_remaining, ratelimit_reset, now, o)
        IN  /\ o.case = "open_oserror" => isFile
            /\ now' = r.at
            /\ ratelimit_remaining' = r.remaining
            /\ ratelimit_reset' = r.reset
            /\ openFiles' = openFiles + r.opened - r.closed
            /\ lastFetch' = Observe(isFile, now, ratelimit_remaining,
                                    ratelimit_reset, o, r)
            /\ UNCHANGED <<objVars, cacheVars, callVars>>

NextFetch == Tick \/ Fetch

SpecFetch == InitFetch /\ [][NextFetch]_vars

----------------------------------------------------------------------------
(* SpecRate: requests with a dict payload, the answer kept with the
   observation *)

ObserveAnswer(isFile, t, remaining, reset, o, r) ==
    LET seen == Observe(isFile, t, remaining, reset, o, r)
    IN  [f \in DOMAIN seen \cup {"answer"} |->
            IF f = "answer" THEN o ELSE seen[f]]

FetchAnswered ==
    \E o \in FetchOutcomes \ {OpenError} :
        LET r == FetchResult(FALSE, ratelimit_remaining, ratelimit_reset, now, o)
        IN  /\ now' = r.at
            /\ ratelimit_remaining' = r.remaining
            /\ ratelimit_reset' = r.reset
            /\ openFiles' = openFiles + r.opened - r.closed
            /\ lastFetch' = ObserveAnswer(FALSE, now, ratelimit_remaining,
                                          ratelimit_reset, o, r)
            /\ UNCHANGED <<objVars, cacheVars, callVars>>

\* One request follows the other; the clock moves with the waits.
NextRate == FetchAnswered

SpecRate == InitFetch /\ [][NextRate]_vars

----------------------------------------------------------------------------
(* _send_tweet: the payloads of a public post *)

\* re.match(r"^image/(png|jpe?g)", mime, re.I)
BatchableMimes == {"image/png", "image/jpeg", "image/jpg"}
Batchable(mime) == mime \in BatchableMimes

\* re.match(r"^image/.*", mime, re.I)
ImageMimes == BatchableMimes \cup {"image/gif", "image/webp"}
IsImage(mime) == mime \in ImageMimes

\* An upload descriptor: the upload response plus the attachment details.
Descriptor(media_id, mime) == [media_id |-> media_id, file_mime |-> mime]

\* batch_size
BatchSizeAlwaysFour(batchFlag) == TweetBatch

BatchSize(batchFlag) == IF ~batchFlag THEN 1 ELSE TweetBatch

\* The test that closes the current group after an append.
ClosesBatchOffByOne(mime, len, size) == ~Batchable(mime) \/ len > size

ClosesBatch(mime, len, size) == ~Batchable(mime) \/ len >= size

\* The loop over the descriptors from position i on: cur is the group being
\* filled, done the groups closed so far.  A group is the list of the media
\* ids that "," joins.
RECURSIVE BatchesDropTrailing(_, _, _, _, _)
BatchesDropTrailing(attachments, i, cur, done, size) ==
    IF i > Len(attachments)
    THEN done
    ELSE LET grown == Append(cur, attachments[i].media_id)
         IN  IF ClosesBatch(attachments[i].file_mime, Len(grown), size)
             THEN BatchesDropTrailing(attachments, i + 1, <<>>,
                                      Append(done, grown), size)
             ELSE BatchesDropTrailing(attachments, i + 1, grown, done, size)

RECURSIVE Batches(_, _, _, _, _)
Batches(attachments, i, cur, done, size) ==
    IF i > Len(attachments)
    THEN IF cur # <<>> THEN Append(done, cur) ELSE done
    ELSE LET grown == Append(cur, attachments[i].media_id)
         IN  IF ClosesBatch(attachments[i].file_mime, Len(grown), size)
             THEN Batches(attachments, i + 1, <<>>, Append(done, grown), size)
             ELSE Batches(attachments, i + 1, grown, done, size)

\* The decimal digits of n, and the format {n:02d}
RECURSIVE Digits(_)
Digits(n) == IF n < 10 THEN <<n>> ELSE Append(Digits(n \div 10), n % 10)
Pad2(n) == IF n < 10 THEN <<0, n>> ELSE Digits(n)

\* A message text: the caller's body, or the page indicator "NN/TT".
BodyText(body) == [kind |-> "body", text |-> body, page |-> <<>>]
PageText(no, total) ==
    [kind |-> "page", text |-> "", page |-> <<Pad2(no), "/", Pad2(total)>>]

\* The status of the group with enumerate() index no (from 0).
GroupStatusFirstKeepsBody(body, no, total) ==
    IF no # 0 THEN PageText(no + 1, total) ELSE BodyText(body)

GroupStatus(body, no, total) ==
    IF no # 0 \/ body = "" THEN PageText(no + 1, total) ELSE BodyText(body)

\* payloads of _send_tweet; media_ids is None when the key is not set.
TweetPayloads(body, attachments, batchFlag) ==
    IF attachments = <<>>
    THEN << [status |-> BodyText(body), media_ids |-> None] >>
    ELSE LET batches == Batches(attachments, 1, <<>>, <<>>, BatchSize(batchFlag))
         IN  [no \in 1..Len(batches) |->
                 [status |-> GroupStatus(body, no - 1, Len(batches)),
                  media_ids |-> Some(batches[no])]]

----------------------------------------------------------------------------
(* SpecPlan: the payloads of _send_tweet for every list of descriptors *)

MaxAttach == 8      \* longest list of upload descriptors

Bodies == {"", "hello"}
PlanMimes == {"image/png", "image/jpeg", "image/gif"}

\* Lists of descriptors; the i-th upload got media id i.
DescriptorLists ==
    UNION {[1..n -> PlanMimes] : n \in 0..MaxAttach}
Descriptors(mimes) == [i \in DOMAIN mimes |-> Descriptor(i, mimes[i])]

InitPlan ==
    /\ mode = "tweet"
    /\ batch \in BOOLEAN
    /\ cache = TRUE
    /\ targets = Some(<<>>)
    /\ whoami_cache = None
    /\ user_cache = EmptyMap
    /\ InitRate
    /\ now = 0
    /\ pc = "plan"
    /\ \E b \in Bodies, mimes \in DescriptorLists :
          call = [body |-> b, attachments |-> Descriptors(mimes),
                  payloads |-> <<>>]
    /\ openFiles = 0
    /\ lastFetch = NoFetch
    /\ reqlog = <<>>

PlanTweet ==
    /\ pc = "plan"
    /\ call' = [call EXCEPT
                  !.payloads = TweetPayloads(call.body, call.attachments, batch)]
    /\ pc' = "planned"
    /\ UNCHANGED <<objVars, rateVars, cacheVars, openFiles, lastFetch, reqlog>>

NextPlan == PlanTweet

SpecPlan == InitPlan /\ [][NextPlan]_vars

\* The groups of the planned payloads, as lists of media ids.
Groups ==
    IF call.attachments = <<>> THEN <<>>
    ELSE [i \in DOMAIN call.payloads |-> Val(call.payloads[i].media_ids)]
GroupSizes == [i \in DOMAIN Groups |-> Len(Groups[i])]
\* The MIME type of the descriptor that got media id m.
MimeOf(m) == call.attachments[m].file_mime
Planned == pc = "planned"

RECURSIVE Concat(_)
Concat(ss) == IF ss = <<>> THEN <<>> ELSE Head(ss) \o Concat(Tail(ss))

----------------------------------------------------------------------------
(* One request through _fetch, as part of a larger step *)

\* The effect of one _fetch answered by o on the clock, the rate-limit state
\* and the file handles.
DoFetch(isFile, o) ==
    LET r == FetchResult(isFile, ratelimit_remaining, ratelimit_reset, now, o)
    IN  /\ now' = r.at
        /\ ratelimit_remaining' = r.remaining
        /\ ratelimit_reset' = r.reset
        /\ openFiles' = openFiles + r.opened - r.closed
        /\ lastFetch' = Observe(isFile, now, ratelimit_remaining,
                                ratelimit_reset, o, r)

\* The pair _fetch returns for o (nothing is raised for a dict payload).
Returned(isFile, o) ==
    FetchResult(isFile, ratelimit_remaining, ratelimit_reset, now, o)

\* A request as the server sees it: the endpoint and what identifies the
\* payload (the handles of a lookup, the recipient and media of a message).
Request(url, handles, recipient, media, text) ==
    [url |-> url, handles |-> handles, recipient |-> recipient,
     media |-> media, text |-> text]

\* Responses that carry no rate-limit headers.
Plain(status, json) == Response(status, TRUE, json, Absent, Absent)
Unparsable(status) == Response(status, FALSE, EmptyDict, Absent, Absent)

----------------------------------------------------------------------------
(* _user_lookup *)

\* The id the platform has for a handle.
IdOf(h) == 1000 + h

Min(a, b) == IF a < b THEN a ELSE b

\* sorted list of a finite set of integers
SortedList(S) ==
    IF S = {} THEN <<>>
    ELSE LET lo == CHOOSE x \in S : \A y \in S : x <= y
             hi == CHOOSE x \in S : \A y \in S : x >= y
         IN  SelectSeq([i \in 1..(hi - lo + 1) |-> lo + i - 1],
                       LAMBDA x : x \in S)

\* parse_list(): the distinct entries of the list
ParseList(list) == SortedList(Range(list))

\* [name for name in names if name not in results]
Without(names, ks) == SelectSeq(names, LAMBDA x : x \notin ks)

\* What the cache gives before any request: the results taken from it and
\* the names still to look up.
CachedIgnoresFlag(userCache, names, lazy) ==
    LET results == Restrict(userCache, Range(names))
    IN  [results |-> results, names |-> Without(names, Keys(results))]

Cached(userCache, names, lazy) ==
    IF lazy /\ userCache # EmptyMap
    THEN LET results == Restrict(userCache, Range(names))
         IN  [results |-> results, names |-> Without(names, Keys(results))]
    ELSE [results |-> EmptyMap, names |-> names]

\* names[i : i + 100], i counted from 0
ChunkUnbounded(names, i) == SubSeq(names, i + 1, Len(names))

Chunk(names, i) == SubSeq(names, i + 1, Min(i + LookupBatch, Len(names)))

\* The batch was answered ok with a list.
BatchOk(ok, content) == ok /\ content.shape = "list"

\* results after the answer (ok, content) to one batch
MergedResetOnFailure(results, ok, content) ==
    IF ~ok \/ content.shape # "list" THEN EmptyMap
    ELSE Update(results, content.users)

Merged(results, ok, content) ==
    IF ~ok \/ content.shape # "list" THEN results
    ELSE Update(results, content.users)

\* self._user_cache.update(results) at the end of _user_lookup
CacheNotWritten(userCache, results) == userCache

CacheWritten(userCache, results) == Update(userCache, results)

\* The answers to a lookup of the handles of chunk: failures, a body that is
\* no list, and lists that name all, one or none of the handles, or that
\* spell the first handle differently (-h is h in another letter case).
UsersOf(S) == [h \in S |-> IF h < 0 THEN IdOf(-h) ELSE IdOf(h)]
LookupOutcomes(chunk) ==
    {TransportError("RequestException"), Plain(429, EmptyDict),
     Plain(HttpOk, EmptyDict),
     Plain(HttpOk, Json("list", 0, UsersOf(Range(chunk)))),
     Plain(HttpOk, Json("list", 0, UsersOf({chunk[1]}))),
     Plain(HttpOk, Json("list", 0, UsersOf({-chunk[1]})))}

\* Entry of _user_lookup(requested, lazy) up to the loop.  frame is None for
\* a call from outside and holds the locals of _send_dm otherwise; the log
\* of requests starts anew with a call from outside.  Kept beside the locals:
\* the handles taken from the cache (fromCache), the number of batches
\* answered ok with a list (okBatches) and the handles their lists name (seen).
BeginUserLookup(requested, lazy, frame, resolved) ==
    LET c == Cached(user_cache, ParseList(requested), lazy)
    IN  /\ call' = [fn |-> "_user_lookup", requested |-> requested,
                    lazy |-> lazy, names |-> c.names, i |-> 0,
                    results |-> c.results, frame |-> frame,
                    resolved |-> resolved, fromCache |-> Keys(c.results),
                    okBatches |-> 0, seen |-> {}]
        /\ reqlog' = IF frame = None THEN <<>> ELSE reqlog
        /\ pc' = IF Len(c.names) = 0 THEN "returned" ELSE "lookup"
        /\ UNCHANGED <<objVars, rateVars, cacheVars, openFiles, lastFetch>>

\* One pass of the loop: one request; after the last one the cache is
\* updated and the call returns.
UserLookupFetch ==
    /\ pc = "lookup"
    /\ LET chunk == Chunk(call.names, call.i)
       IN  \E o \in LookupOutcomes(chunk) :
             LET r == Returned(FALSE, o)
                 results == Merged(call.results, r.ok, r.content)
                 last == call.i + LookupBatch >= Len(call.names)
             IN  /\ DoFetch(FALSE, o)
                 /\ reqlog' = Append(reqlog,
                                Request("lookup", chunk, None, None, None))
                 /\ call' = [call EXCEPT
                       !.i = call.i + LookupBatch,
                       !.results = results,
                       !.okBatches = IF BatchOk(r.ok, r.content)
                                     THEN call.okBatches + 1
                                     ELSE call.okBatches,
                       !.seen = IF BatchOk(r.ok, r.content)
                                THEN call.seen \cup Keys(r.content.users)
                                ELSE call.seen]
                 /\ pc' = IF last THEN "returned" ELSE "lookup"
                 /\ user_cache' = IF last THEN CacheWritten(user_cache, results)
                                  ELSE user_cache
                 /\ UNCHANGED <<objVars, whoami_cache>>

\* The keys of the mappings returned so far, this call included.
ResolvedNow == IF pc = "returned" THEN call.resolved \cup Keys(call.results)
               ELSE call.resolved

----------------------------------------------------------------------------
(* SpecChunk: a fresh object resolves the handles 1..n *)

MaxHandles == 201   \* most handles in one call

Prefix(n) == [i \in 1..n |-> i]

InitCall ==
    /\ InitObject
    /\ InitRate
    /\ now = 0
    /\ pc = "idle"
    /\ call = [frame |-> None, resolved |-> {}]
    /\ openFiles = 0
    /\ lastFetch = NoFetch
    /\ reqlog = <<>>

ChunkCall ==
    /\ pc = "idle"
    /\ \E n \in 0..MaxHandles, lazy \in BOOLEAN :
          BeginUserLookup(Prefix(n), lazy, None, {})

NextChunk == ChunkCall \/ UserLookupFetch

SpecChunk == InitCall /\ [][NextChunk]_vars

----------------------------------------------------------------------------
(* _whoami *)

\* The handle of the account that owns the credentials.
SelfName == 0

\* results of _whoami after the answer (ok, content): the one pair of the
\* body, nothing when a key is missing or the body is no dict.
WhoamiResultsNone(ok, content) == EmptyMap

WhoamiResults(ok, content) ==
    IF ok /\ content.shape = "dict" /\ Cardinality(Keys(content.users)) = 1
    THEN content.users
    ELSE EmptyMap

WhoamiOutcomes ==
    {TransportError("RequestException"), Plain(429, EmptyDict),
     Plain(HttpOk, EmptyDict), Plain(HttpOk, Json("list", 0, EmptyMap)),
     Plain(HttpOk, Json("dict", 0, UsersOf({SelfName})))}

\* _whoami(lazy) answered from the cache: no request.
WhoamiCached(lazy, frame, resolved) ==
    /\ lazy /\ whoami_cache # None
    /\ call' = [fn |-> "_whoami", requested |-> <<>>, lazy |-> lazy,
                names |-> <<>>, i |-> 0, results |-> Val(whoami_cache),
                frame |-> frame, resolved |-> resolved]
    /\ reqlog' = IF frame = None THEN <<>> ELSE reqlog
    /\ pc' = "returned"
    /\ UNCHANGED <<objVars, rateVars, cacheVars, openFiles, lastFetch>>

\* _whoami(lazy) with its one GET.
WhoamiFetch(lazy, frame, resolved) ==
    /\ ~(lazy /\ whoami_cache # None)
    /\ \E o \in WhoamiOutcomes :
          LET r == Returned(FALSE, o)
              results == WhoamiResults(r.ok, r.content)
          IN  /\ DoFetch(FALSE, o)
              /\ reqlog' = Append(IF frame = None THEN <<>> ELSE reqlog,
                                   Request("whoami", <<>>, None, None, None))
              /\ call' = [fn |-> "_whoami", requested |-> <<>>, lazy |-> lazy,
                          names |-> <<>>, i |-> 0, results |-> results,
                          frame |-> frame, resolved |-> resolved]
              /\ pc' = "returned"
              /\ whoami_cache' = IF results # EmptyMap THEN Some(results)
                                 ELSE whoami_cache
              /\ user_cache' = IF results # EmptyMap
                               THEN Update(user_cache, results) ELSE user_cache
              /\ UNCHANGED objVars

----------------------------------------------------------------------------
(* SpecLookup: _user_lookup and _whoami called again and again *)

MaxSmall == 2       \* handles 1..MaxSmall are asked for
MaxList == 2        \* longest list of handles asked for

SmallLists == UNION {[1..n -> 1..MaxSmall] : n \in 0..MaxList}

LookupCall ==
    /\ pc \in {"idle", "returned"}
    /\ \E requested \in SmallLists, lazy \in BOOLEAN :
          BeginUserLookup(requested, lazy, None, ResolvedNow)

WhoamiCallCached ==
    /\ pc \in {"idle", "returned"}
    /\ \E lazy \in BOOLEAN : WhoamiCached(lazy, None, ResolvedNow)

WhoamiCall ==
    /\ pc \in {"idle", "returned"}
    /\ \E lazy \in BOOLEAN : WhoamiFetch(lazy, None, ResolvedNow)

NextLookup == LookupCall \/ WhoamiCallCached \/ WhoamiCall \/ UserLookupFetch

SpecLookup == InitCall /\ [][NextLookup]_vars

----------------------------------------------------------------------------
(* send(), _send_tweet and _send_dm *)

\* An attachment as send() sees it: bool(attachment) and attachment.mimetype
Attachment(ok, mimetype) == [ok |-> ok, mimetype |-> mimetype]

MaxFiles == 3       \* longest list of attachments passed to send()

AttachKinds ==
    {Attachment(FALSE, "image/png"), Attachment(TRUE, "image/png"),
     Attachment(TRUE, "text/plain")}
AttachLists == UNION {[1..n -> AttachKinds] : n \in 0..MaxFiles}


\* The orders in which a mapping can be iterated (the order of insertion,
\* which follows the order of the entries in the responses).
Orderings(S) == {s \in [1..Cardinality(S) -> S] : Range(s) = S}

\* payloads of _send_dm for the recipients `order` (handles, in iteration
\* order) of the mapping `found`
DmText(body, no, total) ==
    IF no # 0 \/ body = "" THEN PageText(no + 1, total) ELSE BodyText(body)
DmPayloadsFirstOnly(body, attachments, found, order) ==
    << [text |-> BodyText(body),
        media |-> IF attachments = <<>> THEN None
                  ELSE Some(attachments[1].media_id),
        owners |-> None] >>

DmPayloads(body, attachments, found, order) ==
    IF attachments = <<>>
    THEN << [text |-> BodyText(body), media |-> None, owners |-> None] >>
    ELSE [no \in 1..Len(attachments) |->
            [text |-> DmText(body, no - 1, Len(attachments)),
             media |-> Some(attachments[no].media_id),
             owners |-> Some([k \in DOMAIN order |-> found[order[k]]])]]

\* The locals of send() and of the mode handler it calls.
Frame(body, attach) ==
    [fn |-> "send", body |-> body, attach |-> attach, no |-> 1,
     attachments |-> <<>>, payloads |-> <<>>, found |-> EmptyMap,
     order |-> <<>>, p |-> 1, q |-> 1, has_error |-> FALSE,
     sent |-> 0, failed |-> 0, result |-> None,
     frame |-> None, resolved |-> {}]

\* return value
Return(c, value) == [c EXCEPT !.result = Some(value)]

\* if self.targets is None
InvalidTargetsIgnored(t) == FALSE

InvalidTargets(t) == t = None

\* send(body, attach) up to the loop over the attachments
SendCall ==
    /\ pc = "idle"
    /\ \E body \in Bodies, attach \in AttachLists :
          /\ reqlog' = <<>>
          /\ IF InvalidTargets(targets)
             THEN /\ call' = Return(Frame(body, attach), FALSE)
                  /\ pc' = "done"
             ELSE /\ call' = Frame(body, attach)
                  /\ pc' = "attach"
    /\ UNCHANGED <<objVars, rateVars, cacheVars, openFiles, lastFetch>>

\* send() is left, with its result or with the exception: the frame is gone
\* and the object is ready for the next call.
SendReturn ==
    /\ pc \in {"done", "raised"}
    /\ pc' = "idle"
    /\ call' = [frame |-> None, resolved |-> {}]
    /\ reqlog' = <<>>
    /\ lastFetch' = NoFetch
    /\ UNCHANGED <<objVars, rateVars, cacheVars, openFiles>>

InLoop == pc = "attach" /\ call.no <= Len(call.attach)
Current == call.attach[call.no]

\* bool(attachment): the accessibility check
AccessibleAlways(attachment) == TRUE

Accessible(attachment) == attachment.ok

\* if not attachment: return False
AttachInaccessible ==
    /\ InLoop /\ ~Accessible(Current)
    /\ call' = Return(call, FALSE)
    /\ pc' = "done"
    /\ UNCHANGED <<objVars, rateVars, cacheVars, openFiles, lastFetch, reqlog>>

\* not an image: continue
AttachIgnored ==
    /\ InLoop /\ Accessible(Current) /\ ~IsImage(Current.mimetype)
    /\ call' = [call EXCEPT !.no = call.no + 1]
    /\ UNCHANGED <<objVars, rateVars, cacheVars, openFiles, lastFetch, reqlog,
                   pc>>

\* The answers to an upload: the file cannot be opened, a transport failure,
\* a rejection, a success without media id, a success with the media id no.
UploadOutcomes(no) ==
    {OpenError, TransportError("RequestException"), Plain(429, EmptyDict),
     Plain(HttpOk, EmptyDict), Plain(HttpOk, Json("dict", no, EmptyMap))}

\* What send() does with the answer (postokay, response) to an upload:
\* return False, go on without the attachment, or keep its descriptor.
AfterUploadStrict(ok, content) ==
    IF ok /\ content.shape = "dict" /\ content.media_id # 0 THEN "keep"
    ELSE "abort"

AfterUploadLenient(ok, content) ==
    IF ok /\ content.shape = "dict" /\ content.media_id # 0 THEN "keep"
    ELSE "skip"

AfterUpload(ok, content) ==
    IF ~ok THEN "abort"
    ELSE IF content.shape = "dict" /\ content.media_id # 0 THEN "keep"
    ELSE "skip"

\* The upload of an image and what send() does with the answer.
AttachUpload ==
    /\ InLoop /\ Accessible(Current) /\ IsImage(Current.mimetype)
    /\ \E o \in UploadOutcomes(call.no) :
          LET r == Returned(TRUE, o)
              after == AfterUpload(r.ok, r.content)
          IN  /\ DoFetch(TRUE, o)
              /\ reqlog' = IF r.transport
                           THEN Append(reqlog, Request("media", <<>>, None,
                                                       Some(call.no), None))
                           ELSE reqlog
              /\ IF r.raised
                 THEN /\ pc' = "raised"
                      /\ call' = call
                 ELSE IF after = "abort"
                 THEN /\ pc' = "done"
                      /\ call' = Return(call, FALSE)
                 ELSE /\ pc' = pc
                      /\ call' = [call EXCEPT
                            !.no = call.no + 1,
                            !.attachments =
                                IF after = "keep"
                                THEN Append(call.attachments,
                                            Descriptor(r.content.media_id,
                                                       Current.mimetype))
                                ELSE call.attachments]
    /\ UNCHANGED <<objVars, cacheVars>>

\* getattr(self, f"_send_{self.mode}")
AttachDone ==
    /\ pc = "attach" /\ call.no > Len(call.attach)
    /\ pc' = mode
    /\ UNCHANGED <<objVars, rateVars, cacheVars, openFiles, lastFetch, reqlog,
                   call>>

\* The answers to a send request.
SendOutcomes ==
    {TransportError("RequestException"), Plain(429, EmptyDict),
     Plain(HttpOk, EmptyDict)}

\* _send_tweet up to its send loop
TweetBuild ==
    /\ pc = "tweet"
    /\ call' = [call EXCEPT
          !.payloads = TweetPayloads(call.body, call.attachments, batch)]
    /\ pc' = "send"
    /\ UNCHANGED <<objVars, rateVars, cacheVars, openFiles, lastFetch, reqlog>>

\* has_error after a send request returned ok (TRUE or FALSE)
ErrorAfter(has_error, ok) == has_error \/ ~ok

\* The send loop goes on to the next payload whatever the answer was.
GoesOnUntilFailure(ok) == ok

GoesOn(ok) == TRUE

\* One pass of the send loop of _send_tweet.
TweetSend ==
    /\ pc = "send"
    /\ \E o \in SendOutcomes :
          LET r == Returned(FALSE, o)
              payload == call.payloads[call.p]
              last == call.p = Len(call.payloads) \/ ~GoesOn(r.ok)
              c == [call EXCEPT !.p = call.p + 1,
                                !.sent = call.sent + 1,
                                !.failed = call.failed + (IF r.ok THEN 0 ELSE 1),
                                !.has_error = ErrorAfter(call.has_error, r.ok)]
          IN  /\ DoFetch(FALSE, o)
              /\ reqlog' = Append(reqlog,
                                  Request("tweet", <<>>, None,
                                          payload.media_ids, payload.status))
              /\ call' = IF last THEN Return(c, ~c.has_error) ELSE c
              /\ pc' = IF last THEN "done" ELSE pc
    /\ UNCHANGED <<objVars, cacheVars>>

\* _send_dm: the recipients are looked up, or the owner of the credentials
DmLookup ==
    /\ pc = "dm" /\ Len(Val(targets)) # 0
    /\ BeginUserLookup(Val(targets), cache, Some(call), {})

DmWhoamiCached ==
    /\ pc = "dm" /\ Len(Val(targets)) = 0
    /\ WhoamiCached(cache, Some(call), {})

DmWhoami ==
    /\ pc = "dm" /\ Len(Val(targets)) = 0
    /\ WhoamiFetch(cache, Some(call), {})

\* if not targets: return False
NoRecipientsIgnored(found) == FALSE

NoRecipients(found) == found = EmptyMap

\* _send_dm from the returned mapping up to its send loop
DmBuild ==
    /\ pc = "returned" /\ call.frame # None
    /\ LET f == Val(call.frame)
           found == call.results
       IN  IF NoRecipients(found)
           THEN /\ call' = Return(f, FALSE)
                /\ pc' = "done"
           ELSE \E order \in Orderings(Keys(found)) :
                  /\ call' = [f EXCEPT
                        !.found = found, !.order = order,
                        !.payloads = DmPayloads(f.body, f.attachments, found,
                                                order)]
                  /\ pc' = "dmsend"
    /\ UNCHANGED <<objVars, rateVars, cacheVars, openFiles, lastFetch, reqlog>>

\* One pass of the inner loop of _send_dm: payload p to recipient q.
DmSend ==
    /\ pc = "dmsend"
    /\ \E o \in SendOutcomes :
          LET r == Returned(FALSE, o)
              payload == call.payloads[call.p]
              lastq == call.q = Len(call.order)
              last == (lastq /\ call.p = Len(call.payloads)) \/ ~GoesOn(r.ok)
              c == [call EXCEPT !.q = IF lastq THEN 1 ELSE call.q + 1,
                                !.p = IF lastq THEN call.p + 1 ELSE call.p,
                                !.sent = call.sent + 1,
                                !.failed = call.failed + (IF r.ok THEN 0 ELSE 1),
                                !.has_error = ErrorAfter(call.has_error, r.ok)]
          IN  /\ DoFetch(FALSE, o)
              /\ reqlog' = Append(reqlog,
                                  Request("dm", <<>>,
                                          Some(call.found[call.order[call.q]]),
                                          payload.media, payload.text))
              /\ call' = IF last THEN Return(c, ~c.has_error) ELSE c
              /\ pc' = IF last THEN "done" ELSE pc
    /\ UNCHANGED <<objVars, cacheVars>>

----------------------------------------------------------------------------
(* Spec: dispatches of one object *)

\* The objects: self.mode, self.batch, self.cache, self.targets
Object(m, b, c, t) == [mode |-> m, batch |-> b, cache |-> c, targets |-> t]
Objects ==
    {Object("tweet", b, TRUE, Some(<<>>)) : b \in BOOLEAN}
    \cup {Object("dm", TRUE, c, Some(t)) :
            c \in BOOLEAN, t \in {<<>>, <<1>>, <<1, 2>>, <<1, 1>>}}
    \cup {Object(m, TRUE, TRUE, None) : m \in {"dm", "tweet"}}

Init ==
    /\ \E obj \in Objects :
          /\ mode = obj.mode
          /\ batch = obj.batch
          /\ cache = obj.cache
          /\ targets = obj.targets
    /\ whoami_cache = None
    /\ user_cache = EmptyMap
    /\ InitRate
    /\ now = 0
    /\ pc = "idle"
    /\ call = [frame |-> None, resolved |-> {}]
    /\ openFiles = 0
    /\ lastFetch = NoFetch
    /\ reqlog = <<>>

Next ==
    \/ SendCall
    \/ AttachInaccessible
    \/ AttachIgnored
    \/ AttachUpload
    \/ AttachDone
    \/ TweetBuild
    \/ TweetSend
    \/ DmLookup
    \/ DmWhoamiCached
    \/ DmWhoami
    \/ UserLookupFetch
    \/ DmBuild
    \/ DmSend
    \/ SendReturn

Spec == Init /\ [][Next]_vars

----------------------------------------------------------------------------
(* __init__, url() and parse_url *)

\* A supplied target is a text: a handle, with or without the leading @, or
\* a text that is no handle (user = Malformed).
Malformed == 0
Token(at, user) == [at |-> at, user |-> user]

\* IS_USER.match(target): the group "user", None without a match
IsUser(token) == IF token.user = Malformed THEN None ELSE Some(token.user)

\* The order of the texts: "@" sorts before the letters.
TokenKey(token) ==
    IF token.at THEN token.user ELSE MaxSmall + 1 + token.user
TokenOf(key) ==
    IF key <= MaxSmall THEN Token(TRUE, key)
    ELSE Token(FALSE, key - MaxSmall - 1)

\* parse_list() of texts: the distinct texts
ParseTokens(list) ==
    LET keys == SortedList({TokenKey(list[i]) : i \in DOMAIN list})
    IN  [i \in 1..Len(keys) |-> TokenOf(keys[i])]

\* self.targets after the loop: the user of every text that matches
Accepted(tokens) ==
    LET ok == SelectSeq(tokens, LAMBDA t : IsUser(t) # None)
    IN  [i \in 1..Len(ok) |-> Val(IsUser(ok[i]))]

\* has_error after the loop
HasError(tokens) == \E i \in DOMAIN tokens : IsUser(tokens[i]) = None

\* self.targets at the end of __init__
InitTargetsNeverNone(supplied) == Some(Accepted(ParseTokens(supplied)))

InitTargets(supplied) ==
    LET tokens == ParseTokens(supplied)
    IN  IF HasError(tokens) /\ Accepted(tokens) = <<>> THEN None
        ELSE Some(Accepted(tokens))

\* The mode arguments that construct an object: none, a mode, or the
\* beginning of one (any other text raises TypeError).
ModeArgs == {None, Some("dm"), Some("tweet"), Some("d"), Some("tw")}

\* self.mode: the first of (dm, tweet) that starts with the argument
InitMode(arg) ==
    IF arg = None THEN "dm"
    ELSE IF Val(arg) \in {"d", "dm"} THEN "dm"
    ELSE "tweet"

\* NotifyTwitter(targets=supplied, mode=modeArg, cache=c, batch=b)
Construct(supplied, modeArg, c, b) ==
    Object(InitMode(modeArg), b, c, InitTargets(supplied))

\* url(): the path entries after the four keys, and the parameters
YesNo(flag) == IF flag THEN "yes" ELSE "no"
Url(obj) ==
    [targets |-> IF obj.targets # None /\ Val(obj.targets) # <<>>
                 THEN [i \in DOMAIN Val(obj.targets) |->
                          Token(TRUE, Val(obj.targets)[i])]
                 ELSE <<>>,
     mode |-> obj.mode, batch |-> YesNo(obj.batch),
     cache |-> YesNo(obj.cache)]

\* parse_bool() of a parameter written by url()
ParseBool(text) == text = "yes"

\* parse_url(): the arguments of the constructor
ParseUrl(url) ==
    [targets |-> url.targets, mode |-> Some(url.mode),
     batch |-> ParseBool(url.batch), cache |-> ParseBool(url.cache)]

----------------------------------------------------------------------------
(* SpecInit: an object is constructed, serialised and constructed again *)

MaxTokens == 2

Tokens == {Token(at, user) : at \in BOOLEAN, user \in 0..MaxSmall}
TokenLists == UNION {[1..n -> Tokens] : n \in 0..MaxTokens}

ThisObject == Object(mode, batch, cache, targets)

InitNew ==
    /\ \E supplied \in TokenLists, modeArg \in ModeArgs, c \in BOOLEAN,
          b \in BOOLEAN :
          LET obj == Construct(supplied, modeArg, c, b)
          IN  /\ mode = obj.mode
              /\ batch = obj.batch
              /\ cache = obj.cache
              /\ targets = obj.targets
              /\ call = [fn |-> "__init__", supplied |-> supplied,
                         first |-> None, url |-> None]
    /\ whoami_cache = None
    /\ user_cache = EmptyMap
    /\ InitRate
    /\ now = 0
    /\ pc = "constructed"
    /\ openFiles = 0
    /\ lastFetch = NoFetch
    /\ reqlog = <<>>

\* url() of the object
Serialize ==
    /\ pc = "constructed"
    /\ call' = [call EXCEPT !.url = Some(Url(ThisObject))]
    /\ pc' = "serialized"
    /\ UNCHANGED <<objVars, rateVars, cacheVars, openFiles, lastFetch, reqlog>>

\* NotifyTwitter(**parse_url(url)): the new object takes the place of the
\* first one, which is kept for the comparison.
Reload ==
    /\ pc = "serialized"
    /\ LET args == ParseUrl(Val(call.url))
           obj == Construct(args.targets, args.mode, args.cache, args.batch)
       IN  /\ mode' = obj.mode
           /\ batch' = obj.batch
           /\ cache' = obj.cache
           /\ targets' = obj.targets
           /\ call' = [call EXCEPT !.supplied = args.targets,
                                   !.first = Some(ThisObject)]
    /\ pc' = "reloaded"
    /\ UNCHANGED <<rateVars, cacheVars, openFiles, lastFetch, reqlog>>

NextInit == Serialize \/ Reload

SpecInit == InitNew /\ [][NextInit]_vars

----------------------------------------------------------------------------
(* SpecInstances: several objects of the class, each with its own requests *)

MaxInst == 2

\* An object's own attributes (its __dict__): None while the object has not
\* assigned the attribute; used: the object has made a request.
FreshInstance == [remaining |-> None, reset |-> None, used |-> FALSE]

\* The class attributes and the objects.
Store(cls, inst) == [cls |-> cls, inst |-> inst]
ThisStore ==
    Store([remaining |-> ratelimit_remaining, reset |-> ratelimit_reset],
          call.inst)

\* self.<name>: the object's own attribute, else the attribute of the class
ReadAttr(st, k, name) ==
    IF st.inst[k][name] = None THEN st.cls[name] ELSE Val(st.inst[k][name])

\* self.<name> = v
SetOnClass(st, k, name, v) == [st EXCEPT !.cls[name] = v]

SetOnSelf(st, k, name, v) == [st EXCEPT !.inst[k][name] = Some(v)]

\* The two assignments of _fetch, each made only when its header parses.
AssignRate(st, k, o) ==
    IF o.case # "response" \/ ~StatusOk(o.status) \/ o.hrem.kind # "int"
    THEN st
    ELSE LET st1 == SetOnSelf(st, k, "remaining", o.hrem.val)
         IN  IF o.hreset.kind # "int" THEN st1
             ELSE SetOnSelf(st1, k, "reset", Seconds(o.hreset.val))

\* The answers: a failure, a rejection that names the quota, and ok
\* responses with and without each of the two headers.
InstanceOutcomes ==
    {TransportError("RequestException"),
     Response(429, TRUE, SomeBody, IntHeader(0), IntHeader(1))}
    \cup {Response(HttpOk, TRUE, SomeBody, hr, hs) :
            hr \in {Absent, IntHeader(0), IntHeader(1)},
            hs \in {Absent, IntHeader(1)}}

InitInstances ==
    /\ InitObject
    /\ InitRate
    /\ now \in 0..1
    /\ pc = "idle"
    /\ call = [inst |-> [k \in 1..MaxInst |-> FreshInstance],
               actor |-> 0, first |-> FALSE]
    /\ openFiles = 0
    /\ lastFetch = NoFetch
    /\ reqlog = <<>>

\* Object k is garbage and another object is constructed in its place;
\* __init__ assigns neither attribute.
NewInstance ==
    /\ \E k \in 1..MaxInst :
          /\ call.inst[k].used
          /\ call' = [call EXCEPT !.inst[k] = FreshInstance, !.actor = k,
                                  !.first = FALSE]
    /\ lastFetch' = NoFetch
    /\ UNCHANGED <<objVars, rateVars, cacheVars, pc, openFiles, reqlog>>

\* One _fetch of object k.
InstanceFetch ==
    \E k \in 1..MaxInst, o \in InstanceOutcomes :
        LET st == ThisStore
            remaining == ReadAttr(st, k, "remaining")
            reset == ReadAttr(st, k, "reset")
            r == FetchResult(FALSE, remaining, reset, now, o)
            after == AssignRate(st, k, o)
        IN  /\ now' = r.at
            /\ ratelimit_remaining' = after.cls.remaining
            /\ ratelimit_reset' = after.cls.reset
            /\ call' = [inst |-> [after.inst EXCEPT ![k].used = TRUE],
                        actor |-> k, first |-> ~call.inst[k].used]
            /\ lastFetch' = Observe(FALSE, now, remaining, reset, o, r)
            /\ UNCHANGED <<objVars, cacheVars, pc, openFiles, reqlog>>

NextInstances == NewInstance \/ InstanceFetch

SpecInstances == InitInstances /\ [][NextInstances]_vars

----------------------------------------------------------------------------
(* Claims *)

AllBatchable == \A i \in DOMAIN call.attachments : Batchable(call.attachments[i].file_mime)
InputIds == [i \in DOMAIN call.attachments |-> call.attachments[i].media_id]

\* C5: with batching enabled, a group that holds a descriptor whose MIME type
\* is neither image/png nor image/jpeg holds nothing else.
C5_GifAlone ==
    (Planned /\ batch) =>
        \A i \in DOMAIN Groups : \A k \in DOMAIN Groups[i] :
            ~Batchable(MimeOf(Groups[i][k])) => Len(Groups[i]) = 1

\* C6: with batching enabled no group holds more than 4 media ids, and a list
\* of PNG/JPEG descriptors fills the groups greedily and in order: every group
\* but the last holds exactly 4, the last holds at least one.
C6_GreedyCeiling ==
    (Planned /\ batch) =>
        /\ \A i \in DOMAIN Groups : Len(Groups[i]) <= TweetBatch
        /\ AllBatchable =>
              /\ \A i \in DOMAIN Groups :
                    /\ i < Len(Groups) => Len(Groups[i]) = TweetBatch
                    /\ Len(Groups[i]) >= 1
              /\ Concat(Groups) = InputIds

C6_Witness ==
    /\ Planned /\ batch
    /\ Len(call.attachments) = 5
    /\ \A i \in DOMAIN call.attachments : call.attachments[i].file_mime = "image/png"
    /\ GroupSizes = <<4, 1>>
    /\ Groups = << <<1, 2, 3, 4>>, <<5>> >>

\* C7 as stated: with batching disabled N descriptors give N singleton
\* groups in input order, hence N tweets.
C7_Original ==
    (Planned /\ ~batch) =>
        /\ Groups = [i \in DOMAIN call.attachments |-> <<call.attachments[i].media_id>>]
        /\ Len(call.payloads) = Len(call.attachments)

\* C7 as amended: with batching disabled N descriptors give N singleton
\* groups in input order; that is N tweets when N >= 1 and one tweet
\* without media when N = 0.
C7_Singletons ==
    (Planned /\ ~batch) =>
        /\ Groups = [i \in DOMAIN call.attachments |-> <<call.attachments[i].media_id>>]
        /\ Len(call.attachments) >= 1 => Len(call.payloads) = Len(call.attachments)
        /\ Len(call.attachments) = 0 =>
              /\ Len(call.payloads) = 1
              /\ call.payloads[1].media_ids = None

C7_Witness ==
    /\ Planned /\ ~batch
    /\ Len(call.attachments) = 3
    /\ call.attachments[2].file_mime = "image/gif"
    /\ call.attachments[1].file_mime = "image/png"
    /\ call.attachments[3].file_mime = "image/png"
    /\ GroupSizes = <<1, 1, 1>>

\* The stored rate-limit state asked for a wait when the last _fetch began.
WindowActive ==
    lastFetch.pre_remaining = 0 /\ lastFetch.pre_now < lastFetch.pre_reset

\* C2: no request is issued inside an active throttle window: when the stored
\* remaining quota is 0 and the clock is before the stored reset, the
\* transport call is made only after (reset - now) + 0.5 s have passed.
C2_NoRequestInWindow ==
    (lastFetch.called /\ lastFetch.transport) =>
        /\ ~(lastFetch.pre_remaining = 0 /\ lastFetch.at < lastFetch.pre_reset)
        /\ WindowActive =>
              lastFetch.at - lastFetch.pre_now
                  >= (lastFetch.pre_reset - lastFetch.pre_now) + Grace

C2_Witness ==
    /\ lastFetch.called /\ lastFetch.transport /\ lastFetch.isFile
    /\ WindowActive
    /\ lastFetch.at > lastFetch.pre_reset
    /\ now = lastFetch.at

\* C4: _fetch never lets an exception out: a transport failure and an
\* attachment file that cannot be opened or read both end in (False, {}).
C4_NeverRaises ==
    lastFetch.called =>
        /\ ~lastFetch.raised
        /\ lastFetch.case \in {"open_oserror", "RequestException", "OSError"} =>
              (~lastFetch.ok /\ lastFetch.content = EmptyDict)

\* C10: the wait computed before a request is positive exactly when the
\* stored remaining quota is 0 and now is before the stored reset; it is then
\* (reset - now) + 0.5 s, and otherwise no wait is requested.
C10_WaitValue ==
    (lastFetch.called /\ lastFetch.transport) =>
        LET positive == lastFetch.wait # None /\ Val(lastFetch.wait) > 0
        IN  /\ positive <=> WindowActive
            /\ WindowActive =>
                  lastFetch.wait
                      = Some((lastFetch.pre_reset - lastFetch.pre_now) + Grace)
            /\ ~WindowActive => lastFetch.wait = None

C10_Witness ==
    /\ lastFetch.called /\ lastFetch.transport
    /\ WindowActive
    /\ lastFetch.pre_reset - lastFetch.pre_now > 1
    /\ lastFetch.wait = Some((lastFetch.pre_reset - lastFetch.pre_now) + Grace)

Ceil(n, d) == (n + d - 1) \div d
LookupReturned == pc = "returned" /\ call.fn = "_user_lookup"
RequestedHandles == [k \in DOMAIN reqlog |-> reqlog[k].handles]

\* C8: _user_lookup issues one request per block of at most 100 uncached
\* handles: no request carries more than 100 handles, and n uncached handles
\* are asked for in exactly ceil(n/100) requests, block after block.
C8_LookupBatches ==
    /\ \A k \in DOMAIN reqlog :
          reqlog[k].url = "lookup" =>
              (Len(reqlog[k].handles) >= 1 /\ Len(reqlog[k].handles) <= LookupBatch)
    /\ LookupReturned =>
          /\ Len(reqlog) = Ceil(Len(call.names), LookupBatch)
          /\ Concat(RequestedHandles) = call.names

C8_Witness ==
    /\ LookupReturned
    /\ Len(call.names) = 150
    /\ Len(reqlog) = 2
    /\ Len(reqlog[1].handles) = 100
    /\ Len(reqlog[2].handles) = 50

IsSend(r) == r.url \in {"tweet", "dm"}
SendRequests == SelectSeq(reqlog, IsSend)
\* send() has returned after its mode handler built the payloads.
SentAndDone == pc = "done" /\ call.payloads # <<>>
\* The request that carries payload p (to recipient q in direct-message mode).
Expected(p, q) ==
    IF mode = "tweet"
    THEN Request("tweet", <<>>, None, call.payloads[p].media_ids,
                 call.payloads[p].status)
    ELSE Request("dm", <<>>, Some(call.found[call.order[q]]),
                 call.payloads[p].media, call.payloads[p].text)
Recipients == IF mode = "tweet" THEN 1 ELSE Len(call.order)

\* C1: once the send loop has started every payload is sent, in order and
\* whatever the earlier answers were, and the result is True exactly when
\* every send request returned ok.
C1_AllSentResultIffAllOk ==
    SentAndDone =>
        /\ call.sent = Len(call.payloads) * Recipients
        /\ Len(SendRequests) = call.sent
        /\ \A p \in DOMAIN call.payloads : \A q \in 1..Recipients :
              SendRequests[(p - 1) * Recipients + q] = Expected(p, q)
        /\ call.result = Some(call.failed = 0)

C1_Witness ==
    /\ SentAndDone
    /\ mode = "tweet"
    /\ Len(call.payloads) = 3
    /\ call.sent = 3
    /\ call.failed = 1
    /\ lastFetch.ok
    /\ call.result = Some(FALSE)

\* C3: with the invalid target set send() returns False at once and no
\* request is made: no upload, no lookup, no send.
C3_InvalidTargetsNoNetwork ==
    targets = None =>
        /\ pc \in {"idle", "done"}
        /\ reqlog = <<>>
        /\ ~lastFetch.called
        /\ pc = "done" => call.result = Some(FALSE)

C3_Witness ==
    /\ targets = None
    /\ mode = "dm"
    /\ pc = "done"
    /\ Len(call.attach) = 2
    /\ call.attach[1].ok /\ IsImage(call.attach[1].mimetype)
    /\ call.result = Some(FALSE)
    /\ reqlog = <<>>


\* Texts of the supplied list that are handles, and texts that are none.
SuppliedUsers == {call.supplied[i].user : i \in DOMAIN call.supplied} \ {Malformed}
SuppliedRejected == \E i \in DOMAIN call.supplied : call.supplied[i].user = Malformed

\* C11: the constructor leaves targets None exactly when a supplied text was
\* rejected and none was accepted; an empty supplied list gives the empty
\* list (notify self); with a well-formed handle supplied, targets holds the
\* accepted handles and no rejected text.
C11_InvalidIffAllRejected ==
    pc \in {"constructed", "serialized", "reloaded"} =>
        /\ (targets = None) <=> (SuppliedRejected /\ SuppliedUsers = {})
        /\ call.supplied = <<>> => targets = Some(<<>>)
        /\ SuppliedUsers # {} =>
              /\ targets # None
              /\ Range(Val(targets)) = SuppliedUsers
              /\ Val(targets) # <<>>

\* A list of two texts, neither a handle, gave None.
C11_Witness ==
    /\ pc = "constructed"
    /\ Len(call.supplied) = 2
    /\ SuppliedRejected
    /\ SuppliedUsers = {}
    /\ targets = None

\* C13: after url(), parse_url and construction, the new object has the mode,
\* the batch flag and the targets of the first one.  Violated: an object
\* whose targets are None comes back with the empty list (notify self).
C13_RoundTrip ==
    pc = "reloaded" =>
        /\ mode = Val(call.first).mode
        /\ batch = Val(call.first).batch
        /\ targets = Val(call.first).targets


\* send() is running or has returned, and call holds its locals.
InSendFrame ==
    /\ targets # None
    /\ pc \in {"attach", "tweet", "dm", "send", "dmsend", "done"}
\* The attachments (by position) that the loop passed without a descriptor:
\* no image, or an upload answered without a media id.
Skipped ==
    {k \in 1..(call.no - 1) :
        \A i \in DOMAIN call.attachments : call.attachments[i].media_id # k}
\* send() returned from inside the loop, at attachment call.no.
AbortedInLoop == pc = "done" /\ call.no <= Len(call.attach)
\* send() returned after the loop, and its handler had someone to send to.
HandlerSent ==
    /\ pc = "done"
    /\ call.no > Len(call.attach)
    /\ mode = "tweet" \/ call.found # EmptyMap
\* The media ids a payload carries.
PayloadMedia(payload) ==
    IF mode = "tweet"
    THEN IF payload.media_ids = None THEN <<>> ELSE Val(payload.media_ids)
    ELSE IF payload.media = None THEN <<>> ELSE <<Val(payload.media)>>
SentMedia == Concat([p \in DOMAIN call.payloads |-> PayloadMedia(call.payloads[p])])
OnlyUploads == \A i \in DOMAIN reqlog : reqlog[i].url = "media"

\* C12: an attachment passed over (no image, or uploaded without a media id
\* in the answer) does not end the call: a return from inside the loop is
\* due to another attachment, the descriptors kept are in input order, and
\* after the loop the message is sent with exactly those descriptors (without
\* media when there is none) and the result is True exactly when every send
\* request returned ok.
C12_SkipNotFatal ==
    (InSendFrame /\ Skipped # {}) =>
        /\ \A k \in Skipped : call.attach[k].ok
        /\ \A i, j \in DOMAIN call.attachments :
              i < j => call.attachments[i].media_id < call.attachments[j].media_id
        /\ AbortedInLoop =>
              \/ ~Current.ok
              \/ IsImage(Current.mimetype) /\ lastFetch.called /\ ~lastFetch.ok
        /\ pc \in {"tweet", "dm", "send", "dmsend"} =>
              call.no = Len(call.attach) + 1
        /\ HandlerSent =>
              /\ call.sent >= 1
              /\ call.sent = Len(call.payloads) * Recipients
              /\ Len(SendRequests) = call.sent
              /\ SentMedia = [i \in DOMAIN call.attachments |->
                                 call.attachments[i].media_id]
              /\ call.attachments = <<>> => Len(call.payloads) = 1
              /\ call.result = Some(call.failed = 0)

\* (text, image without media id, image): the third is sent alone.
C12_Witness ==
    /\ HandlerSent
    /\ mode = "tweet"
    /\ Len(call.attach) = 3
    /\ ~IsImage(call.attach[1].mimetype)
    /\ Skipped = {1, 2}
    /\ SentMedia = <<3>>
    /\ call.result = Some(TRUE)

\* C17: when an attachment of the input is inaccessible no send request and
\* no lookup is ever issued, and send() returns False; the check that fails
\* ends the call at that attachment although the images before it were
\* uploaded; an attachment that is no image never ends the call.
C17_InaccessibleAborts ==
    /\ (pc \in {"lookup", "returned"} /\ call.frame # None) =>
          \A k \in DOMAIN Val(call.frame).attach : Val(call.frame).attach[k].ok
    /\ (InSendFrame /\ \E k \in DOMAIN call.attach : ~call.attach[k].ok) =>
          /\ pc \in {"attach", "done"}
          /\ OnlyUploads
          /\ pc = "done" => call.result = Some(FALSE)
    /\ (InSendFrame /\ AbortedInLoop /\ Current.ok) =>
          IsImage(Current.mimetype)

C17_Witness ==
    /\ InSendFrame
    /\ AbortedInLoop
    /\ call.no = 3
    /\ ~Current.ok
    /\ Len(call.attachments) = 2
    /\ Len(reqlog) = 2
    /\ call.result = Some(FALSE)

\* C18 as stated: an unusable attachment never ends the call, so send() does
\* not return from inside the loop over the attachments.  Violated.
C18_Original == InSendFrame => ~AbortedInLoop

\* C18: an attachment that fails the accessibility check, or whose upload
\* request fails, ends the call at once with False: no attachment after it
\* is uploaded and no message is sent; the loop goes on only past
\* accessible attachments whose upload, if any, returned ok.
C18_UnusableAborts ==
    InSendFrame =>
        /\ pc = "attach" =>
              /\ \A k \in 1..(call.no - 1) : call.attach[k].ok
              /\ lastFetch.called => lastFetch.ok
        /\ AbortedInLoop =>
              /\ \/ ~Current.ok
                 \/ IsImage(Current.mimetype) /\ lastFetch.called /\ ~lastFetch.ok
              /\ call.result = Some(FALSE)
              /\ OnlyUploads
              /\ \A i \in DOMAIN reqlog : Val(reqlog[i].media) <= call.no

\* The upload of the second of three images failed.
C18_Witness ==
    /\ InSendFrame
    /\ AbortedInLoop
    /\ Len(call.attach) = 3
    /\ call.no = 2
    /\ Current.ok
    /\ ~lastFetch.ok
    /\ Len(call.attachments) = 1
    /\ Len(reqlog) = 2
    /\ call.result = Some(FALSE)


\* The last _fetch got a response (of any status).
Answered == lastFetch.called /\ lastFetch.case = "response"
BothHeaders ==
    lastFetch.answer.hrem.kind = "int" /\ lastFetch.answer.hreset.kind = "int"

\* C14: after every response, of whatever status, the rate-limit state is
\* the one its two headers give.  Violated: the headers of a response whose
\* status is not 200 are never read.
C14_HeadersAlwaysRead ==
    (Answered /\ BothHeaders) =>
        /\ ratelimit_remaining = lastFetch.answer.hrem.val
        /\ ratelimit_reset = Seconds(lastFetch.answer.hreset.val)

\* C15: a response with one of the two headers absent or unparsable leaves
\* both ratelimit_remaining and ratelimit_reset as they were.  Violated: the
\* remaining quota is stored before the reset header is parsed.
C15_AllOrNothing ==
    (Answered /\ ~BothHeaders) =>
        /\ ratelimit_remaining = lastFetch.pre_remaining
        /\ ratelimit_reset = lastFetch.pre_reset

\* C16 as stated: every 2xx response gives ok = True and every other
\* response ok = False.  Violated by a 201.
C16_Original ==
    Answered =>
        lastFetch.ok = (lastFetch.answer.status \in 200..299)

\* C16: a response gives ok = True exactly when its status is 200; in both
\* cases the content is the parsed body, or {} when the body cannot be
\* parsed, and nothing is raised.
C16_OkIffStatus200 ==
    Answered =>
        /\ ~lastFetch.raised
        /\ lastFetch.ok = (lastFetch.answer.status = 200)
        /\ lastFetch.content = IF lastFetch.answer.parsable
                               THEN lastFetch.answer.json ELSE EmptyDict

\* A 201 with a body that cannot be parsed came back as (False, {}).
C16_Witness ==
    /\ Answered
    /\ lastFetch.answer.status = 201
    /\ ~lastFetch.answer.parsable
    /\ ~lastFetch.ok
    /\ lastFetch.content = EmptyDict


\* _user_lookup is in its loop or has returned.
InUserLookup == pc \in {"lookup", "returned"} /\ call.fn = "_user_lookup"

C20_CacheWrittenNeverCleared ==
    /\ [](LookupReturned =>
            /\ \A h \in Keys(call.results) :
                  h \in Keys(user_cache) /\ user_cache[h] = call.results[h]
            /\ ~call.lazy =>
                  /\ call.fromCache = {}
                  /\ Concat(RequestedHandles) = ParseList(call.requested))
    /\ []((pc = "returned" /\ call.fn = "_whoami") =>
            /\ call.results # EmptyMap =>
                  /\ whoami_cache = Some(call.results)
                  /\ \A h \in Keys(call.results) :
                        h \in Keys(user_cache) /\ user_cache[h] = call.results[h]
            /\ ~call.lazy => Len(reqlog) = 1)
    /\ [][/\ Keys(user_cache) \subseteq Keys(user_cache')
          /\ whoami_cache # None => whoami_cache' # None]_vars

\* Both handles were resolved before and are in the cache; the call with the
\* flag off asked for both again.
C20_Witness ==
    /\ LookupReturned
    /\ ~call.lazy
    /\ call.requested = <<1, 2>>
    /\ {1, 2} \subseteq call.resolved
    /\ Len(reqlog) = 1
    /\ reqlog[1].handles = <<1, 2>>
    /\ Keys(call.results) = {1, 2}
    /\ {1, 2} \subseteq Keys(user_cache)


\* The step is a whole call of _whoami.
WhoamiStep == pc' = "returned" /\ call'.fn = "_whoami"

\* C21: _whoami with the flag on and the own identity cached returns the
\* cached mapping without a request; otherwise it makes exactly one request:
\* answered ok with the pair, the pair is stored in the slot of the own
\* identity and in the identity cache and returned alone; otherwise the
\* mapping returned is empty and both caches are as before.
C21_Whoami ==
    [][WhoamiStep =>
          IF call'.lazy /\ whoami_cache # None
          THEN /\ reqlog' = <<>>
               /\ lastFetch' = lastFetch
               /\ call'.results = Val(whoami_cache)
               /\ UNCHANGED cacheVars
          ELSE /\ Len(reqlog') = 1
               /\ reqlog'[1].url = "whoami"
               /\ lastFetch'.called /\ lastFetch'.transport
               /\ call'.results =
                     IF lastFetch'.ok /\ lastFetch'.content.shape = "dict"
                     THEN lastFetch'.content.users ELSE EmptyMap
               /\ IF call'.results # EmptyMap
                  THEN /\ Cardinality(Keys(call'.results)) = 1
                       /\ whoami_cache' = Some(call'.results)
                       /\ user_cache' = Update(user_cache, call'.results)
                  ELSE UNCHANGED cacheVars]_vars

\* The one request of a call with the flag off was answered with the pair.
C21_Witness ==
    /\ pc = "returned" /\ call.fn = "_whoami"
    /\ ~call.lazy
    /\ Len(reqlog) = 1
    /\ lastFetch.ok
    /\ Keys(call.results) = {SelfName}
    /\ whoami_cache = Some(call.results)
    /\ SelfName \in Keys(user_cache)


\* _send_dm waits for, or has got, the mapping of its recipients.
Resolving == pc \in {"lookup", "returned"} /\ call.frame # None
\* The requests that resolve identities.
IsResolve(r) == r.url \in {"whoami", "lookup"}
ResolveRequests == SelectSeq(reqlog, IsResolve)

\* C22: in direct-message mode the recipients come from _whoami when the
\* target list is empty and from _user_lookup otherwise; with an empty
\* mapping send() returns False and no direct message is sent.
C22_EmptyResolutionFails ==
    (mode = "dm" /\ targets # None /\ pc # "idle") =>
        /\ Resolving =>
              /\ (call.fn = "_whoami") <=> (Val(targets) = <<>>)
              /\ (call.fn = "_user_lookup") <=> (Val(targets) # <<>>)
              /\ call.fn = "_user_lookup" => call.requested = Val(targets)
              /\ SendRequests = <<>>
        /\ \A i \in DOMAIN ResolveRequests :
              ResolveRequests[i].url
                  = IF Val(targets) = <<>> THEN "whoami" ELSE "lookup"
        /\ pc = "dmsend" => call.found # EmptyMap
        /\ (pc = "done" /\ call.no > Len(call.attach) /\ call.found = EmptyMap) =>
              /\ call.result = Some(FALSE)
              /\ SendRequests = <<>>
              /\ call.payloads = <<>>

\* Two handles were asked for in one request that failed; an image had been
\* uploaded before.
C22_Witness ==
    /\ mode = "dm" /\ targets = Some(<<1, 2>>)
    /\ pc = "done"
    /\ call.no > Len(call.attach)
    /\ Len(call.attachments) = 1
    /\ Len(ResolveRequests) = 1
    /\ ~lastFetch.ok
    /\ call.found = EmptyMap
    /\ call.result = Some(FALSE)
    /\ SendRequests = <<>>


\* The ids of the resolved recipients, and the ids the targets of the object
\* stand for (the own id when there is no target).
FoundIds == {call.found[h] : h \in Keys(call.found)}
TargetIds ==
    IF Val(targets) = <<>> THEN {IdOf(SelfName)}
    ELSE {IdOf(Val(targets)[i]) : i \in DOMAIN Val(targets)}
\* The send requests that carry payload p.
RequestsOf(p) ==
    SubSeq(SendRequests, (p - 1) * Cardinality(Keys(call.found)) + 1,
           p * Cardinality(Keys(call.found)))

\* C23: in direct-message mode there is one payload per descriptor (one
\* payload when there is none), each with at most one media id, and every
\* payload is sent exactly once to every resolved recipient, payload after
\* payload, each request carrying the id of a recipient the targets stand
\* for, also when the targets name a handle twice.
C23_DmFanOut ==
    (mode = "dm" /\ SentAndDone) =>
        /\ Len(call.payloads)
              = IF call.attachments = <<>> THEN 1 ELSE Len(call.attachments)
        /\ \A p \in DOMAIN call.payloads :
              /\ call.payloads[p].media
                    = IF call.attachments = <<>> THEN None
                      ELSE Some(call.attachments[p].media_id)
              /\ Len(PayloadMedia(call.payloads[p])) <= 1
        /\ FoundIds \subseteq TargetIds
        /\ Cardinality(FoundIds) = Cardinality(Keys(call.found))
        /\ Len(SendRequests) = Len(call.payloads) * Cardinality(FoundIds)
        /\ \A p \in DOMAIN call.payloads :
              LET sent == RequestsOf(p)
              IN  /\ \A q \in DOMAIN sent :
                        /\ sent[q].url = "dm"
                        /\ sent[q].media = call.payloads[p].media
                        /\ sent[q].text = call.payloads[p].text
                  /\ {sent[q].recipient : q \in DOMAIN sent}
                        = {Some(id) : id \in FoundIds}
                  /\ \A q1, q2 \in DOMAIN sent :
                        q1 # q2 => sent[q1].recipient # sent[q2].recipient

\* The targets name handle 1 twice; two images went to it, one message each.
C23_Witness ==
    /\ mode = "dm" /\ SentAndDone
    /\ targets = Some(<<1, 1>>)
    /\ Len(call.attachments) = 2
    /\ Len(call.payloads) = 2
    /\ Len(SendRequests) = 2
    /\ SendRequests[1].recipient = Some(IdOf(1))
    /\ SendRequests[2].recipient = Some(IdOf(1))
    /\ call.result = Some(TRUE)


\* The text "NN/TT" for ordinal n of total t, both below 100.
TwoDigits(n) == <<n \div 10, n % 10>>
PageIndicator(n, t) ==
    [kind |-> "page", text |-> "", page |-> <<TwoDigits(n), "/", TwoDigits(t)>>]

\* C24: with k groups, the status of group i (from 0) is the caller's body
\* exactly when i = 0 and the body is not empty; otherwise it is the page
\* indicator of the two-digit ordinal i + 1, a slash and the two-digit k.
C24_StatusText ==
    (Planned /\ call.attachments # <<>>) =>
        /\ Len(call.payloads) = Len(Groups)
        /\ \A i \in 0..(Len(Groups) - 1) :
              call.payloads[i + 1].status
                  = IF i = 0 /\ call.body # ""
                    THEN [kind |-> "body", text |-> call.body, page |-> <<>>]
                    ELSE PageIndicator(i + 1, Len(Groups))

\* Three groups with an empty body: 01/03, 02/03, 03/03.
C24_Witness ==
    /\ Planned
    /\ call.body = ""
    /\ Len(Groups) = 3
    /\ call.payloads[1].status = PageIndicator(1, 3)
    /\ call.payloads[3].status = PageIndicator(3, 3)

\* C27: the groups partition the descriptors in order: no group is empty and
\* the media ids of the groups, tweet after tweet, are the media ids of the
\* descriptors, each once.
C27_GroupsPartition ==
    Planned =>
        /\ \A i \in DOMAIN Groups : Groups[i] # <<>>
        /\ Concat(Groups) = InputIds
        /\ call.attachments # <<>> => Len(Groups) >= 1

\* (png, gif, png, png) with batching: the gif closes the first group and the
\* last two images are the trailing group.
C27_Witness ==
    /\ Planned /\ batch
    /\ Len(call.attachments) = 4
    /\ call.attachments[2].file_mime = "image/gif"
    /\ Groups = << <<1, 2>>, <<3, 4>> >>


\* C25: no attachment file handle is open after a _fetch, whichever way it
\* was left: ok, a status that is not ok, a transport exception, a body that
\* cannot be parsed.
C25_HandlesClosed == openFiles = 0

\* An upload ended in a transport exception, and no handle is open.
C25_Witness ==
    /\ lastFetch.called /\ lastFetch.isFile /\ lastFetch.transport
    /\ lastFetch.case = "RequestException"
    /\ openFiles = 0


\* What object k reads as its rate-limit state before a request.
RateOf(st, k) ==
    <<ReadAttr(st, k, "remaining"), ReadAttr(st, k, "reset")>>

=============================================================================
